---------------------------- MODULE Spec2Model ----------------------------
(***************************************************************************)
(* Model of pyHS100: the query helper of SmartDevice, the plug and bulb    *)
(* capability model built on it, the discovery receive loop and the wire   *)
(* codec.                                                                  *)
(*                                                                         *)
(* Python dicts are TLA+ functions over string keys, Python strings that   *)
(* the code takes apart (split, lower, substring) are sequences of         *)
(* one-character strings.                                                  *)
(***************************************************************************)
EXTENDS Integers, Sequences, FiniteSets, TLC

VARIABLES
    self,       \* the SmartPlug / SmartBulb object under operation
    device,     \* the remote device the object talks to
    op,         \* the operation the caller invoked ("" when idle)
    args,       \* the argument the caller passed to it
    outcome,    \* how it ended: a return value or an exception; pending while it runs
    sent,       \* the exchanges with the device during that operation
    raised,     \* <<cause, exception class>> of every _query_helper failure
    sock,       \* discovery: the datagram socket
    dpc,        \* discovery: position in Discover.discover
    type,       \* discovery: the local variable `type` of the receive loop
    devices,    \* discovery: the mapping being built
    received,   \* discovery: the datagrams recvfrom has handed over in this call
    inbox,      \* discovery: the datagrams that arrived and wait in the socket
    wire,       \* discovery: the bytes sendto put on the wire
    plain,      \* codec: the plaintext handed to encrypt
    frame,      \* codec: the frame encrypt produced
    decoded,    \* codec: what decrypt made of the frame
    ext,        \* brightness: a value on the caller's 0..255 scale
    nat,        \* brightness: a value on the device's 0..100 scale
    conv        \* brightness: the converted values

vars == <<self, device, op, args, outcome, sent, raised, sock, dpc, type, devices,
          received, inbox, wire, plain, frame, decoded, ext, nat, conv>>

devVars   == <<self, device, op, args, outcome, sent, raised>>
discVars  == <<sock, dpc, type, devices, received, inbox, wire>>
codecVars == <<plain, frame, decoded>>
convVars  == <<ext, nat, conv>>

-----------------------------------------------------------------------------
(* Bounds *)

\* longest plaintext handed to the codec
MaxPlainLen == 3
\* most datagrams that arrive during one discovery call
MaxReplies == 3

-----------------------------------------------------------------------------
(* Python values *)

\* dict.__contains__
Has(d, k) == k \in DOMAIN d

\* del d[k] for a key that is present
Del(d, k) == [x \in (DOMAIN d) \ {k} |-> d[x]]

\* the empty dict {}
EmptyDict == [x \in {} |-> 0]

\* dict.update / a dict literal merged with another
Merge(d, e) == [x \in (DOMAIN d) \cup (DOMAIN e) |-> IF x \in DOMAIN e THEN e[x] ELSE d[x]]

\* a returned value; pytype is the Python type of value
Return(pytype, value) ==
    [kind |-> "return", exc |-> "", msg |-> "", pytype |-> pytype, value |-> value]

\* `return None`
ReturnNone == Return("NoneType", 0)

\* a raised exception of class exc
Raise(exc, msg) ==
    [kind |-> "raise", exc |-> exc, msg |-> msg, pytype |-> "", value |-> 0]

Raised(o) == o.kind = "raise"

\* the operation has not ended yet
Pending == [kind |-> "pending", exc |-> "", msg |-> "", pytype |-> "", value |-> 0]

-----------------------------------------------------------------------------
(* Strings the code takes apart *)

\* "ENE": SmartDevice.FEATURE_ENERGY_METER
FEATURE_ENERGY_METER == <<"E", "N", "E">>
\* "TIM": SmartDevice.FEATURE_TIMER
FEATURE_TIMER == <<"T", "I", "M">>

\* the feature field of a plug with an energy meter (HS110): "TIM:ENE"
FeatureTimEne == FEATURE_TIMER \o <<":">> \o FEATURE_ENERGY_METER
\* the feature field of a plug without one (HS100): "TIM"
FeatureTim == FEATURE_TIMER
\* a feature field that only looks like it names the meter: "TIME:NE"
FeatureLookalike == <<"T", "I", "M", "E", ":", "N", "E">>

RECURSIVE SplitFrom(_, _, _, _)
SplitFrom(s, sep, i, cur) ==
    IF i > Len(s) THEN <<cur>>
    ELSE IF s[i] = sep THEN <<cur>> \o SplitFrom(s, sep, i + 1, <<>>)
    ELSE SplitFrom(s, sep, i + 1, Append(cur, s[i]))

\* str.split(sep) for a one-character separator
Split(s, sep) == SplitFrom(s, sep, 1, <<>>)

\* x in list
InList(x, l) == \E i \in 1..Len(l) : l[i] = x

-----------------------------------------------------------------------------
(* The remote device and the transport (the environment of the library) *)

SYSTEM == "system"
TIME == "time"
EMETER == "emeter"
BULB_EMETER == "smartlife.iot.common.emeter"
LIGHTING == "smartlife.iot.smartbulb.lightingservice"

\* light attributes a bulb can hold
AttrWarm == [hue |-> 0, saturation |-> 0, brightness |-> 100, color_temp |-> 2700]
AttrGreen == [hue |-> 120, saturation |-> 50, brightness |-> 40, color_temp |-> 0]

\* per-day and per-month statistics of a device with a meter: a bulb reports
\* energy_wh, a plug reports energy and, beside it, the same in energy_wh
DayList(family) ==
    IF family = "bulb"
    THEN <<[day |-> 1, energy_wh |-> 120], [day |-> 2, energy_wh |-> 80]>>
    ELSE <<[day |-> 1, energy |-> 7, energy_wh |-> 7000],
           [day |-> 2, energy |-> 9, energy_wh |-> 9000]>>

MonthList(family) ==
    IF family = "bulb"
    THEN <<[month |-> 1, energy_wh |-> 300], [month |-> 2, energy_wh |-> 200]>>
    ELSE <<[month |-> 1, energy |-> 30, energy_wh |-> 30000],
           [month |-> 2, energy |-> 20, energy_wh |-> 20000]>>

\* the devices the library may be talking to
Plugs ==
    [family : {"plug"}, relay_state : {0, 1, 2}, led_off : {0, 1},
     feature : {FeatureTimEne, FeatureTim, FeatureLookalike},
     on_off : {0}, light : {AttrWarm}, dft : {AttrWarm},
     is_color : {0}, is_dimmable : {0}, is_variable_color_temp : {0},
     erased : {FALSE}]

Bulbs ==
    [family : {"bulb"}, relay_state : {0}, led_off : {0}, feature : {<<>>},
     on_off : {0, 1}, light : {AttrWarm, AttrGreen}, dft : {AttrWarm, AttrGreen},
     is_color : {0, 1}, is_dimmable : {1}, is_variable_color_temp : {0, 1},
     erased : {FALSE}]
    \cup
    [family : {"bulb"}, relay_state : {0}, led_off : {0}, feature : {<<>>},
     on_off : {0, 1}, light : {AttrWarm, AttrGreen}, dft : {AttrWarm, AttrGreen},
     is_color : {0}, is_dimmable : {0}, is_variable_color_temp : {0},
     erased : {FALSE}]

\* the fields of system/get_sysinfo
SysInfoFields(d) ==
    IF d.family = "plug"
    THEN [relay_state |-> d.relay_state, led_off |-> d.led_off, feature |-> d.feature]
    ELSE [is_color |-> d.is_color, is_dimmable |-> d.is_dimmable,
          is_variable_color_temp |-> d.is_variable_color_temp]

\* the fields of get_light_state: a bulb that is on reports its attributes at
\* top level, a bulb that is off reports them under dft_on_state; a reply
\* may also carry both places (full)
LightStateFields(d, full) ==
    LET top == d.light
        sub == [dft_on_state |-> d.dft]
        onoff == [on_off |-> d.on_off]
    IN  IF full THEN Merge(onoff, Merge(top, sub))
        ELSE IF d.on_off = 1 THEN Merge(onoff, top)
        ELSE Merge(onoff, sub)

\* the result fields the device answers a command with
ResultFields(d, target, cmd, full) ==
    IF target = SYSTEM /\ cmd = "get_sysinfo" THEN SysInfoFields(d)
    ELSE IF target = LIGHTING /\ cmd = "get_light_state" THEN LightStateFields(d, full)
    ELSE IF target = LIGHTING /\ cmd = "transition_light_state" THEN LightStateFields(d, full)
    ELSE IF target = TIME /\ cmd = "get_time"
        THEN [year |-> 2018, month |-> 1, mday |-> 2, hour |-> 3, min |-> 4, sec |-> 5]
    ELSE IF target = TIME /\ cmd = "get_timezone" THEN [index |-> 39]
    ELSE IF cmd = "get_realtime"
        THEN (IF d.family = "bulb" THEN [power_mw |-> 1500] ELSE [power |-> 2])
    ELSE IF cmd = "get_daystat"
        THEN [day_list |-> IF d.erased THEN <<>> ELSE DayList(d.family)]
    ELSE IF cmd = "get_monthstat"
        THEN [month_list |-> IF d.erased THEN <<>> ELSE MonthList(d.family)]
    ELSE EmptyDict

\* what a command the device accepts does to the device
Apply(d, target, cmd, arg) ==
    IF target = SYSTEM /\ cmd = "set_relay_state" THEN [d EXCEPT !.relay_state = arg.state]
    ELSE IF target = SYSTEM /\ cmd = "set_led_off" THEN [d EXCEPT !.led_off = arg.off]
    ELSE IF target = LIGHTING /\ cmd = "transition_light_state"
        THEN [d EXCEPT !.on_off = IF Has(arg, "on_off") THEN arg.on_off ELSE @,
                       !.light = [k \in DOMAIN @ |-> IF Has(arg, k) THEN arg[k] ELSE @[k]]]
    ELSE IF cmd = "erase_emeter_stat" THEN [d EXCEPT !.erased = TRUE]
    ELSE d

\* another client switches the bulb
Switched(d) == IF d.family = "bulb" THEN [d EXCEPT !.on_off = 1 - @] ELSE d

\* err_code values a device reports for a failure
ErrCodes == {-1, 3}

\* what made an exchange fail, as the caller of _query_helper would name it
Cause(shape) ==
    IF shape = "fail" THEN "transport"
    ELSE IF shape \in {"cmd_err", "ns_err"} THEN "device"
    ELSE "protocol"

\* how one exchange can go: the transport fails; the device answers the
\* command (ok), rejects it in the command's object (cmd_err) or in the
\* namespace's object (ns_err); the answer is empty (no_ns), is about another
\* namespace (other_ns), lacks the command (no_cmd) or the command's
\* err_code (no_err_code)
Behaviours ==
    [shape : {"fail", "no_ns", "other_ns", "no_cmd", "no_err_code"}, code : {0},
        full : {FALSE}]
    \cup [shape : {"cmd_err", "ns_err"}, code : ErrCodes, full : {FALSE}]
    \cup [shape : {"ok"}, code : {0}, full : BOOLEAN]

\* TPLinkSmartHomeProtocol.query as _query_helper sees it: an exception
\* (ok = FALSE) or the parsed response
TransportResult(d, target, cmd, b) ==
    LET fields == ResultFields(d, target, cmd, b.full)
        inner == [err_code |-> b.code]
    IN  CASE b.shape = "fail" -> [ok |-> FALSE, response |-> EmptyDict]
          [] b.shape = "no_ns" -> [ok |-> TRUE, response |-> EmptyDict]
          [] b.shape = "other_ns" ->
                [ok |-> TRUE,
                 response |-> [x \in {"context"} |-> [y \in {cmd} |-> Merge(inner, fields)]]]
          [] b.shape = "no_cmd" ->
                [ok |-> TRUE, response |-> [x \in {target} |-> EmptyDict]]
          [] b.shape = "no_err_code" ->
                [ok |-> TRUE, response |-> [x \in {target} |-> [y \in {cmd} |-> fields]]]
          [] b.shape = "ns_err" ->
                [ok |-> TRUE, response |-> [x \in {target} |-> inner]]
          [] b.shape = "cmd_err" ->
                [ok |-> TRUE, response |-> [x \in {target} |-> [y \in {cmd} |-> inner]]]
          [] b.shape = "ok" ->
                [ok |-> TRUE,
                 response |-> [x \in {target} |-> [y \in {cmd} |-> Merge(inner, fields)]]]

-----------------------------------------------------------------------------
(* SmartDevice._query_helper *)

SmartDeviceException == "SmartDeviceException"

\* _query_helper without the check for the namespace: a response that lacks
\* it gives an empty result
QueryHelperResult_NoNamespaceCheck(target, cmd, t) ==
    IF ~t.ok THEN Raise(SmartDeviceException, "Communication error")
    ELSE IF ~Has(t.response, target) THEN Return("dict", EmptyDict)
    ELSE LET result == t.response[target] IN
        IF Has(result, "err_code") /\ result["err_code"] # 0
        THEN Raise(SmartDeviceException, "Error on")
        ELSE IF ~Has(result, cmd) THEN Raise("KeyError", cmd)
        ELSE IF ~Has(result[cmd], "err_code") THEN Raise("KeyError", "err_code")
        ELSE Return("dict", Del(result[cmd], "err_code"))

\* lines 75-95 of smartdevice.py, applied to what protocol.query did
QueryHelperResult(target, cmd, t) ==
    IF ~t.ok THEN Raise(SmartDeviceException, "Communication error")
    ELSE IF ~Has(t.response, target) THEN Raise(SmartDeviceException, "No required")
    ELSE LET result == t.response[target] IN
        IF Has(result, "err_code") /\ result["err_code"] # 0
        THEN Raise(SmartDeviceException, "Error on")
        ELSE IF ~Has(result, cmd) THEN Raise("KeyError", cmd)
        ELSE IF ~Has(result[cmd], "err_code") THEN Raise("KeyError", "err_code")
        ELSE Return("dict", Del(result[cmd], "err_code"))


-----------------------------------------------------------------------------
(* Operations as programs over _query_helper                               *)
(*                                                                         *)
(* An operation is written as an operator of rs, the results of the        *)
(* _query_helper calls it has made so far, in order: it either asks for    *)
(* the next call or ends with what it returns or raises.                   *)

Ask(target, cmd, a) ==
    [ask |-> TRUE, target |-> target, cmd |-> cmd, arg |-> a, out |-> Pending]

End(out) == [ask |-> FALSE, target |-> "", cmd |-> "", arg |-> EmptyDict, out |-> out]

\* rs without its first k results
Drop(rs, k) == SubSeq(rs, k + 1, Len(rs))

\* int(a / b) under true division: truncation toward zero
TruncDiv(a, b) == IF a >= 0 THEN a \div b ELSE -((-a) \div b)

-----------------------------------------------------------------------------
(* SmartDevice *)

\* SmartPlug.__init__ and SmartBulb.__init__
SmartPlug == [cls |-> "SmartPlug", emeter_type |-> EMETER, emeter_units |-> FALSE]
SmartBulb == [cls |-> "SmartBulb", emeter_type |-> BULB_EMETER, emeter_units |-> TRUE]

\* self.get_sysinfo()
AskSysinfo == Ask(SYSTEM, "get_sysinfo", EmptyDict)

\* sys_info / get_sysinfo
sys_info(rs) == IF Len(rs) = 0 THEN AskSysinfo ELSE End(rs[1])

\* bool(self.sys_info[key]) on the defaultdict, r being what get_sysinfo
\* gave: a missing key reads as None
FlagOf(r, key) ==
    IF Raised(r) THEN r ELSE Return("bool", Has(r.value, key) /\ r.value[key] # 0)

\* SmartPlug.has_emeter, r being what get_sysinfo gave
FeatureCheck(r) ==
    IF Raised(r) THEN r
    ELSE IF ~Has(r.value, "feature") THEN Raise("AttributeError", "split")
    ELSE Return("bool", InList(FEATURE_ENERGY_METER, Split(r.value["feature"], ":")))

\* SmartPlug.has_emeter and SmartBulb.has_emeter
has_emeter(slf, rs) ==
    IF slf.cls = "SmartBulb" THEN End(Return("bool", TRUE))
    ELSE IF Len(rs) = 0 THEN AskSysinfo
    ELSE End(FeatureCheck(rs[1]))

\* the number of requests has_emeter sends
EmeterQueries(slf) == IF slf.cls = "SmartBulb" THEN 0 ELSE 1

\* the alias setter: one command, nothing returned
alias_set(alias, rs) ==
    IF Len(rs) = 0 THEN Ask(SYSTEM, "set_dev_alias", [alias |-> alias])
    ELSE IF Raised(rs[1]) THEN End(rs[1])
    ELSE End(ReturnNone)

\* the time getter
time_get(rs) ==
    IF Len(rs) = 0 THEN Ask(TIME, "get_time", EmptyDict)
    ELSE IF Raised(rs[1])
        THEN (IF rs[1].exc = SmartDeviceException THEN End(ReturnNone) ELSE End(rs[1]))
    ELSE LET res == rs[1].value IN
        IF \E k \in {"year", "month", "mday", "hour", "min", "sec"} : ~Has(res, k)
        THEN End(Raise("KeyError", "year"))
        ELSE End(Return("datetime",
                 <<res.year, res.month, res.mday, res.hour, res.min, res.sec>>))

\* the timezone getter
timezone_get(rs) ==
    IF Len(rs) = 0 THEN Ask(TIME, "get_timezone", EmptyDict) ELSE End(rs[1])

\* a metering operation that goes on whatever has_emeter says
IfHasEmeter_Unguarded(slf, rs, absent, rest) ==
    LET h == has_emeter(slf, rs) IN
    IF h.ask THEN h
    ELSE IF Raised(h.out) THEN h
    ELSE rest

\* `if not self.has_emeter: return absent`, then the rest of a metering
\* operation: rest is what the operation does with the results that follow
\* those of has_emeter
IfHasEmeter(slf, rs, absent, rest) ==
    LET h == has_emeter(slf, rs) IN
    IF h.ask THEN h
    ELSE IF Raised(h.out) THEN h
    ELSE IF ~h.out.value THEN End(absent)
    ELSE rest

RealtimeRest(slf, rs) ==
    IF Len(rs) = 0 THEN Ask(slf.emeter_type, "get_realtime", EmptyDict) ELSE End(rs[1])

get_emeter_realtime(slf, rs) ==
    IfHasEmeter(slf, rs, ReturnNone, RealtimeRest(slf, Drop(rs, EmeterQueries(slf))))

\* dict((entry[period], entry[key]) for entry in list): a later entry of the
\* same period replaces an earlier one
PeriodDict(list, period, key) ==
    [p \in {list[i][period] : i \in 1..Len(list)} |->
        LET last == CHOOSE i \in 1..Len(list) :
                /\ list[i][period] = p
                /\ \A j \in 1..Len(list) : list[j][period] = p => j <= i
        IN  list[last][key]]

\* the two fields taken for each other
EnergyKey_Swapped(slf) == IF slf.emeter_units THEN "energy" ELSE "energy_wh"

\* the field of an entry that holds the energy value
EnergyKey(slf) == IF slf.emeter_units THEN "energy_wh" ELSE "energy"

\* the body shared by get_emeter_daily and get_emeter_monthly
StatRest(slf, rs, cmd, a, listkey, period) ==
    IF Len(rs) = 0 THEN Ask(slf.emeter_type, cmd, a)
    ELSE IF Raised(rs[1]) THEN End(rs[1])
    ELSE IF ~Has(rs[1].value, listkey) THEN End(Raise("KeyError", listkey))
    ELSE LET list == rs[1].value[listkey] IN
        IF \E i \in 1..Len(list) : ~Has(list[i], period) \/ ~Has(list[i], EnergyKey(slf))
        THEN End(Raise("KeyError", EnergyKey(slf)))
        ELSE End(Return("dict", PeriodDict(list, period, EnergyKey(slf))))

get_emeter_daily(slf, year, month, rs) ==
    IfHasEmeter(slf, rs, ReturnNone,
        StatRest(slf, Drop(rs, EmeterQueries(slf)), "get_daystat",
                 [month |-> month, year |-> year], "day_list", "day"))

get_emeter_monthly(slf, year, rs) ==
    IfHasEmeter(slf, rs, ReturnNone,
        StatRest(slf, Drop(rs, EmeterQueries(slf)), "get_monthstat",
                 [year |-> year], "month_list", "month"))

EraseRest(slf, rs) ==
    IF Len(rs) = 0 THEN Ask(slf.emeter_type, "erase_emeter_stat", EmptyDict)
    ELSE IF Raised(rs[1]) THEN End(rs[1])
    ELSE End(Return("bool", TRUE))

erase_emeter_stats(slf, rs) ==
    IfHasEmeter(slf, rs, Return("bool", FALSE),
        EraseRest(slf, Drop(rs, EmeterQueries(slf))))

\* the field of a realtime reading that holds the power
PowerKey(slf) == IF slf.emeter_units THEN "power_mw" ELSE "power"

ConsumptionRest(slf, rs) ==
    LET r == get_emeter_realtime(slf, rs) IN
    IF r.ask THEN r
    ELSE IF Raised(r.out) THEN r
    ELSE IF r.out.pytype = "NoneType" THEN End(Raise("TypeError", PowerKey(slf)))
    ELSE IF ~Has(r.out.value, PowerKey(slf)) THEN End(Raise("KeyError", PowerKey(slf)))
    ELSE End(Return("float", r.out.value[PowerKey(slf)]))

current_consumption(slf, rs) ==
    IfHasEmeter(slf, rs, ReturnNone,
        ConsumptionRest(slf, Drop(rs, EmeterQueries(slf))))

-----------------------------------------------------------------------------
(* SmartPlug *)

SWITCH_STATE_ON == "ON"
SWITCH_STATE_OFF == "OFF"
SWITCH_STATE_UNKNOWN == "UNKNOWN"

\* the state a raw relay_state stands for; a missing one reads as None
SwitchState(info) ==
    IF Has(info, "relay_state") /\ info["relay_state"] = 0 THEN SWITCH_STATE_OFF
    ELSE IF Has(info, "relay_state") /\ info["relay_state"] = 1 THEN SWITCH_STATE_ON
    ELSE SWITCH_STATE_UNKNOWN

\* the state getter of a plug
plug_state(rs) ==
    IF Len(rs) = 0 THEN AskSysinfo
    ELSE IF Raised(rs[1]) THEN End(rs[1])
    ELSE End(Return("str", SwitchState(rs[1].value)))

\* is_on of a plug
plug_is_on(rs) == IF Len(rs) = 0 THEN AskSysinfo ELSE End(FlagOf(rs[1], "relay_state"))

\* turn_on and turn_off of a plug
set_relay_state(state, rs) ==
    IF Len(rs) = 0 THEN Ask(SYSTEM, "set_relay_state", [state |-> state])
    ELSE IF Raised(rs[1]) THEN End(rs[1])
    ELSE End(ReturnNone)

plug_turn_on(rs) == set_relay_state(1, rs)
plug_turn_off(rs) == set_relay_state(0, rs)

\* the letters str.upper and str.lower act on
UpperLetters == <<"A", "B", "C", "D", "E", "F", "G", "H", "I", "J", "K", "L", "M", "N", "O", "P", "Q", "R", "S", "T", "U", "V", "W", "X", "Y", "Z">>
LowerLetters == <<"a", "b", "c", "d", "e", "f", "g", "h", "i", "j", "k", "l", "m", "n", "o", "p", "q", "r", "s", "t", "u", "v", "w", "x", "y", "z">>

\* str.upper on the letters
Upper(str) ==
    [i \in 1..Len(str) |->
        IF \E k \in 1..26 : LowerLetters[k] = str[i]
        THEN UpperLetters[CHOOSE k \in 1..26 : LowerLetters[k] = str[i]]
        ELSE str[i]]

\* the state setter of a plug: value is what the caller passed, with its
\* Python type; a str is held as its characters
plug_state_set(value, rs) ==
    IF value.pytype # "str" THEN End(Raise("ValueError", "State must be str"))
    ELSE IF Upper(value.value) = <<"O", "N">> THEN plug_turn_on(rs)
    ELSE IF Upper(value.value) = <<"O", "F", "F">> THEN plug_turn_off(rs)
    ELSE End(Raise("ValueError", "State is not valid"))

\* the led getter: bool(1 - led_off)
led_get(rs) ==
    IF Len(rs) = 0 THEN AskSysinfo
    ELSE IF Raised(rs[1]) THEN End(rs[1])
    ELSE IF ~Has(rs[1].value, "led_off") THEN End(Raise("TypeError", "led_off"))
    ELSE End(Return("bool", 1 - rs[1].value["led_off"] # 0))

\* the led setter: off = int(not state)
led_set(state, rs) ==
    IF Len(rs) = 0 THEN Ask(SYSTEM, "set_led_off", [off |-> IF state THEN 0 ELSE 1])
    ELSE IF Raised(rs[1]) THEN End(rs[1])
    ELSE End(ReturnNone)

-----------------------------------------------------------------------------
(* SmartBulb *)

BULB_STATE_ON == "ON"
BULB_STATE_OFF == "OFF"

is_color(rs) == IF Len(rs) = 0 THEN AskSysinfo ELSE End(FlagOf(rs[1], "is_color"))
is_dimmable(rs) == IF Len(rs) = 0 THEN AskSysinfo ELSE End(FlagOf(rs[1], "is_dimmable"))
is_variable_color_temp(rs) ==
    IF Len(rs) = 0 THEN AskSysinfo ELSE End(FlagOf(rs[1], "is_variable_color_temp"))

AskLightState == Ask(LIGHTING, "get_light_state", EmptyDict)

get_light_state(rs) == IF Len(rs) = 0 THEN AskLightState ELSE End(rs[1])

set_light_state(state, rs) ==
    IF Len(rs) = 0 THEN Ask(LIGHTING, "transition_light_state", state) ELSE End(rs[1])

\* the state getter of a bulb, r being what get_light_state gave
BulbStateOf(r) ==
    IF Raised(r) THEN r
    ELSE IF ~Has(r.value, "on_off") THEN Raise("KeyError", "on_off")
    ELSE Return("str", IF r.value["on_off"] # 0 THEN BULB_STATE_ON ELSE BULB_STATE_OFF)

\* is_on of a bulb, r being what get_light_state gave
BulbIsOnOf(r) ==
    IF Raised(BulbStateOf(r)) THEN BulbStateOf(r)
    ELSE Return("bool", BulbStateOf(r).value = BULB_STATE_ON)

bulb_state(rs) == IF Len(rs) = 0 THEN AskLightState ELSE End(BulbStateOf(rs[1]))

bulb_is_on(rs) == IF Len(rs) = 0 THEN AskLightState ELSE End(BulbIsOnOf(rs[1]))

\* the state setter of a bulb
bulb_state_set(bulb_state_, rs) ==
    IF bulb_state_ \notin {BULB_STATE_ON, BULB_STATE_OFF} THEN End(Raise("ValueError", ""))
    ELSE IF Len(rs) = 0
        THEN Ask(LIGHTING, "transition_light_state",
                 [on_off |-> IF bulb_state_ = BULB_STATE_ON THEN 1 ELSE 0])
    ELSE IF Raised(rs[1]) THEN End(rs[1])
    ELSE End(ReturnNone)

bulb_turn_on(rs) == bulb_state_set(BULB_STATE_ON, rs)
bulb_turn_off(rs) == bulb_state_set(BULB_STATE_OFF, rs)

\* the value the hsv getter reports for a device-side brightness
ExternalFromNative(n) == TruncDiv(n * 255, 100)

\* a setter that rounds to the nearest native value
NativeFromExternal_Rounded(e) == TruncDiv(2 * e * 100 + 255, 2 * 255)

\* the brightness the hsv setter sends for a caller's value
NativeFromExternal(e) == TruncDiv(e * 100, 255)

\* the two places taken for each other
AttrPlace_Swapped(is_on) == IF is_on THEN "dft_on_state" ELSE "top"

\* the object a getter reads the attributes from once is_on has answered
AttrPlace(is_on) == IF is_on THEN "top" ELSE "dft_on_state"

\* light_state[k] or light_state['dft_on_state'][k] for every k of keys, in
\* the order given; the first key that is missing raises KeyError
ReadAttrs(light_state, place, keys) ==
    IF place = "dft_on_state" /\ ~Has(light_state, "dft_on_state")
    THEN Raise("KeyError", "dft_on_state")
    ELSE LET src == IF place = "dft_on_state" THEN light_state["dft_on_state"]
                    ELSE light_state
         IN  IF \E i \in 1..Len(keys) : ~Has(src, keys[i])
             THEN Raise("KeyError",
                      keys[CHOOSE i \in 1..Len(keys) :
                              ~Has(src, keys[i]) /\ \A j \in 1..(i - 1) : Has(src, keys[j])])
             ELSE Return("tuple", [i \in 1..Len(keys) |-> src[keys[i]]])

\* the part the three getters share: the capability flag (rs[1]), the light
\* state (rs[2]), is_on (rs[3]), then the read
BulbGetter(flag, keys, rs) ==
    IF Len(rs) = 0 THEN AskSysinfo
    ELSE IF Raised(FlagOf(rs[1], flag)) THEN End(rs[1])
    ELSE IF ~FlagOf(rs[1], flag).value THEN End(ReturnNone)
    ELSE IF Len(rs) = 1 THEN AskLightState
    ELSE IF Raised(rs[2]) THEN End(rs[2])
    ELSE IF Len(rs) = 2 THEN AskLightState
    ELSE IF Raised(BulbIsOnOf(rs[3])) THEN End(BulbIsOnOf(rs[3]))
    ELSE End(ReadAttrs(rs[2].value, AttrPlace(BulbIsOnOf(rs[3]).value), keys))

\* what the getters make of the attributes read
HsvOf(r) ==
    IF Raised(r) \/ r.pytype = "NoneType" THEN r
    ELSE Return("tuple", <<r.value[1], r.value[2], ExternalFromNative(r.value[3])>>)

IntOf(r) ==
    IF Raised(r) \/ r.pytype = "NoneType" THEN r ELSE Return("int", r.value[1])

\* a getter's result once the shared part has ended
Finished(p, out) == IF p.ask THEN p ELSE End(out)

hsv_get(rs) ==
    Finished(BulbGetter("is_color", <<"hue", "saturation", "brightness">>, rs),
             HsvOf(BulbGetter("is_color", <<"hue", "saturation", "brightness">>, rs).out))

color_temp_get(rs) ==
    Finished(BulbGetter("is_variable_color_temp", <<"color_temp">>, rs),
             IntOf(BulbGetter("is_variable_color_temp", <<"color_temp">>, rs).out))

brightness_get(rs) ==
    Finished(BulbGetter("is_dimmable", <<"brightness">>, rs),
             IntOf(BulbGetter("is_dimmable", <<"brightness">>, rs).out))

\* setters that send the transition whatever the capability flag says
BulbSetter_Unguarded(flag, light_state, rs) ==
    IF Len(rs) = 0 THEN AskSysinfo
    ELSE IF Raised(FlagOf(rs[1], flag)) THEN End(rs[1])
    ELSE IF Len(rs) = 1 THEN Ask(LIGHTING, "transition_light_state", light_state)
    ELSE IF Raised(rs[2]) THEN End(rs[2])
    ELSE End(ReturnNone)

\* the part the three setters share: the capability flag (rs[1]), then the
\* transition (rs[2])
BulbSetter(flag, light_state, rs) ==
    IF Len(rs) = 0 THEN AskSysinfo
    ELSE IF Raised(FlagOf(rs[1], flag)) THEN End(rs[1])
    ELSE IF ~FlagOf(rs[1], flag).value THEN End(ReturnNone)
    ELSE IF Len(rs) = 1 THEN Ask(LIGHTING, "transition_light_state", light_state)
    ELSE IF Raised(rs[2]) THEN End(rs[2])
    ELSE End(ReturnNone)

hsv_set(state, rs) ==
    BulbSetter("is_color",
               [hue |-> state[1], saturation |-> state[2],
                brightness |-> NativeFromExternal(state[3]), color_temp |-> 0], rs)

color_temp_set(temp, rs) == BulbSetter("is_variable_color_temp", [color_temp |-> temp], rs)

brightness_set(brightness, rs) == BulbSetter("is_dimmable", [brightness |-> brightness], rs)

\* SmartDevice.toggle with the is_on, turn_on and turn_off of the subclass
toggle(slf, rs) ==
    IF Len(rs) = 0 THEN (IF slf.cls = "SmartBulb" THEN AskLightState ELSE AskSysinfo)
    ELSE LET o == IF slf.cls = "SmartBulb" THEN BulbIsOnOf(rs[1])
                  ELSE FlagOf(rs[1], "relay_state")
         IN  IF Raised(o) THEN End(o)
             ELSE IF slf.cls = "SmartBulb"
                 THEN bulb_state_set(IF o.value THEN BULB_STATE_OFF ELSE BULB_STATE_ON,
                                     Drop(rs, 1))
             ELSE set_relay_state(IF o.value THEN 0 ELSE 1, Drop(rs, 1))

-----------------------------------------------------------------------------
(* Wire codec: TPLinkSmartHomeProtocol.encrypt and decrypt *)

\* the fixed initial key of the XOR chain
InitialKey == 171

\* values a byte of a plaintext takes in the model
Bytes == {0, 1, 123, 171, 255}

\* the plaintexts handed to the codec
Plaintexts == UNION {[1..n -> Bytes] : n \in 0..MaxPlainLen}

RECURSIVE Xor(_, _)
\* bitwise exclusive-or of two bytes
Xor(a, b) ==
    IF a = 0 /\ b = 0 THEN 0
    ELSE (((a % 2) + (b % 2)) % 2) + 2 * Xor(a \div 2, b \div 2)

\* the 4-byte big-endian encoding of n
Pack4(n) ==
    <<(n \div 16777216) % 256, (n \div 65536) % 256, (n \div 256) % 256, n % 256>>

\* the number a 4-byte big-endian prefix stands for
Unpack4(b) == b[1] * 16777216 + b[2] * 65536 + b[3] * 256 + b[4]

RECURSIVE XorEncode(_, _)
\* each output byte is the plaintext byte combined with the previous output byte
XorEncode(p, key) ==
    IF p = <<>> THEN <<>>
    ELSE <<Xor(key, Head(p))>> \o XorEncode(Tail(p), Xor(key, Head(p)))

RECURSIVE XorDecode_KeyFromPlain(_, _)
\* a decoder that chains on the byte it has just decoded
XorDecode_KeyFromPlain(c, key) ==
    IF c = <<>> THEN <<>>
    ELSE <<Xor(key, Head(c))>> \o XorDecode_KeyFromPlain(Tail(c), Xor(key, Head(c)))

RECURSIVE XorDecode(_, _)
\* each plaintext byte is the obfuscated byte combined with the previous
\* obfuscated byte
XorDecode(c, key) ==
    IF c = <<>> THEN <<>>
    ELSE <<Xor(key, Head(c))>> \o XorDecode(Tail(c), Head(c))

\* encode: the length prefix of the plaintext, then the obfuscated payload
Encrypt(p) == Pack4(Len(p)) \o XorEncode(p, InitialKey)

\* decode: strip the prefix, decode as many bytes as it says
Decrypt(f) == XorDecode(SubSeq(f, 5, 4 + Unpack4(SubSeq(f, 1, 4))), InitialKey)

NotDecoded == [done |-> FALSE, bytes |-> <<>>]

\* a plaintext is handed to encrypt
EncryptCall ==
    /\ frame = <<>>
    /\ frame' = Encrypt(plain)
    /\ UNCHANGED <<devVars, discVars, plain, decoded, convVars>>

\* the frame is handed to decrypt
DecryptCall ==
    /\ frame # <<>>
    /\ ~decoded.done
    /\ decoded' = [done |-> TRUE, bytes |-> Decrypt(frame)]
    /\ UNCHANGED <<devVars, discVars, plain, frame, convVars>>

-----------------------------------------------------------------------------
(* Brightness scales of the bulb's hsv property *)

\* the largest value on the caller's scale and on the device's
ExternalMax == 255
NativeMax == 100

NotConverted == [done |-> FALSE, native |-> 0, external |-> 0]

\* the hsv setter converts ext, the hsv getter converts nat
Convert ==
    /\ ~conv.done
    /\ conv' = [done |-> TRUE, native |-> NativeFromExternal(ext),
                external |-> ExternalFromNative(nat)]
    /\ UNCHANGED <<devVars, discVars, codecVars, ext, nat>>

-----------------------------------------------------------------------------
(* Discover.discover *)

\* str.lower on the letters
LowerChar(c) ==
    IF \E i \in 1..26 : UpperLetters[i] = c
    THEN LowerLetters[CHOOSE i \in 1..26 : UpperLetters[i] = c]
    ELSE c

Lower(str) == [i \in 1..Len(str) |-> LowerChar(str[i])]

\* sub in str
Contains(sub, str) ==
    \E i \in 0..(Len(str) - Len(sub)) : SubSeq(str, i + 1, i + Len(sub)) = sub

SMARTPLUG == <<"s", "m", "a", "r", "t", "p", "l", "u", "g">>
SMARTBULB == <<"s", "m", "a", "r", "t", "b", "u", "l", "b">>
UNKNOWN == <<"U", "N", "K", "N", "O", "W", "N">>

\* device types that replies declare
TypePlug == <<"I", "O", "T", ".", "S", "M", "A", "R", "T", "P", "L", "U", "G", "S", "W", "I", "T", "C", "H">>
TypeBulb == <<"I", "O", "T", ".", "S", "M", "A", "R", "T", "B", "U", "L", "B">>
TypeBulbLower == <<"i", "o", "t", ".", "s", "m", "a", "r", "t", "b", "u", "l", "b">>
TypeCamera == <<"I", "O", "T", ".", "I", "P", "C", "A", "M", "E", "R", "A">>

\* the local variable `type` before its first assignment
Unbound == [bound |-> FALSE, value |-> <<>>]

SysInfoReply(fields) == [system |-> [get_sysinfo |-> fields]]

\* what the datagrams carry: parsed is FALSE for one decrypt or json.loads
\* cannot make sense of; family is the family a correct classification of
\* the reply alone gives ("" when it declares neither)
Payloads ==
    {[parsed |-> FALSE, info |-> EmptyDict, family |-> ""],
     [parsed |-> TRUE, info |-> EmptyDict, family |-> ""],
     [parsed |-> TRUE, info |-> [system |-> EmptyDict], family |-> ""],
     [parsed |-> TRUE, info |-> SysInfoReply(EmptyDict), family |-> ""],
     [parsed |-> TRUE, info |-> SysInfoReply([type |-> TypeCamera]), family |-> ""],
     [parsed |-> TRUE, info |-> SysInfoReply([type |-> TypePlug]), family |-> "SmartPlug"],
     [parsed |-> TRUE, info |-> SysInfoReply([mic_type |-> TypeBulb]), family |-> "SmartBulb"],
     [parsed |-> TRUE, info |-> SysInfoReply([type |-> TypeBulbLower, mic_type |-> TypePlug]),
      family |-> "SmartBulb"]}

\* source addresses of replies
Addresses == {"10.0.0.1", "10.0.0.2"}

Datagrams == {[addr |-> a, payload |-> p] : a \in Addresses, p \in Payloads}

\* lines 61-71: the value of `type` after the if/else on the reply's info
TypeAfter(info, old) ==
    IF Has(info, "system") /\ Has(info["system"], "get_sysinfo")
    THEN LET sysinfo == info["system"]["get_sysinfo"] IN
         IF Has(sysinfo, "type") THEN [bound |-> TRUE, value |-> sysinfo["type"]]
         ELSE IF Has(sysinfo, "mic_type") THEN [bound |-> TRUE, value |-> sysinfo["mic_type"]]
         ELSE [bound |-> TRUE, value |-> UNKNOWN]
    ELSE old

\* lines 72-75: the mapping after the classification of `type`
DevicesAfter(devs, ip, t) ==
    IF Contains(SMARTPLUG, Lower(t.value))
    THEN Merge(devs, [x \in {ip} |-> [cls |-> "SmartPlug", ip_address |-> ip]])
    ELSE IF Contains(SMARTBULB, Lower(t.value))
    THEN Merge(devs, [x \in {ip} |-> [cls |-> "SmartBulb", ip_address |-> ip]])
    ELSE devs

\* json.dumps(discovery_query) as bytes:
\* {"emeter": {"get_realtime": null}, "system": {"get_sysinfo": null}}
DiscoveryRequest ==
    <<123, 34, 101, 109, 101, 116, 101, 114, 34, 58, 32, 123, 34, 103, 101, 116, 95,
      114, 101, 97, 108, 116, 105, 109, 101, 34, 58, 32, 110, 117, 108, 108, 125, 44,
      32, 34, 115, 121, 115, 116, 101, 109, 34, 58, 32, 123, 34, 103, 101, 116, 95,
      115, 121, 115, 105, 110, 102, 111, 34, 58, 32, 110, 117, 108, 108, 125, 125>>

\* protocol.encrypt(req)
EncryptedRequest == Encrypt(DiscoveryRequest)

\* a sendto of everything encrypt produced
WireRequest_Whole(encrypted_req) == encrypted_req

\* encrypted_req[4:], the bytes handed to sendto
WireRequest(encrypted_req) == SubSeq(encrypted_req, 5, Len(encrypted_req))

\* the socket is made and the request is broadcast
DiscoverSend ==
    /\ dpc = "idle"
    /\ sock' = "open"
    /\ wire' = WireRequest(EncryptedRequest)
    /\ dpc' = "recv"
    /\ devices' = EmptyDict
    /\ type' = Unbound
    /\ received' = <<>>
    /\ inbox' = <<>>
    /\ UNCHANGED <<devVars, codecVars, convVars>>

\* the socket is made but sendto raises: the exception leaves discover
DiscoverSendFails ==
    /\ dpc = "idle"
    /\ sock' = "open"
    /\ dpc' = "raised"
    /\ UNCHANGED <<type, devices, received, inbox, wire, devVars, codecVars, convVars>>

\* a reply reaches the socket while discover is receiving
Arrive ==
    /\ dpc = "recv"
    /\ Len(received) + Len(inbox) < MaxReplies
    /\ \E d \in Datagrams : inbox' = Append(inbox, d)
    /\ UNCHANGED <<sock, dpc, type, devices, received, wire, devVars, codecVars, convVars>>

\* one pass of the receive loop over the reply at the head of the socket's
\* queue; an exception in the pass ends the loop and discover returns
Recv ==
    /\ dpc = "recv"
    /\ inbox # <<>>
    /\ LET d == Head(inbox)
           t == TypeAfter(d.payload.info, type)
       IN  /\ received' = Append(received, d)
           /\ inbox' = Tail(inbox)
           /\ IF ~d.payload.parsed
              THEN dpc' = "done_exception" /\ UNCHANGED <<type, devices>>
              ELSE IF ~t.bound
              THEN dpc' = "done_exception" /\ UNCHANGED <<type, devices>>
              ELSE /\ type' = t
                   /\ devices' = DevicesAfter(devices, d.addr, t)
                   /\ dpc' = "recv"
    /\ UNCHANGED <<sock, wire, devVars, codecVars, convVars>>

\* recvfrom times out with nothing left to read: discover returns
RecvTimeout ==
    /\ dpc = "recv"
    /\ inbox = <<>>
    /\ dpc' = "done_timeout"
    /\ UNCHANGED <<sock, type, devices, received, inbox, wire, devVars, codecVars, convVars>>

\* recvfrom raises another socket error: discover returns
RecvError ==
    /\ dpc = "recv"
    /\ dpc' = "done_error"
    /\ UNCHANGED <<sock, type, devices, received, inbox, wire, devVars, codecVars, convVars>>

-----------------------------------------------------------------------------
(* The caller: one operation at a time on one device object *)

\* a direct call of _query_helper(target, cmd, arg)
query_helper(request, rs) ==
    IF Len(rs) = 0 THEN Ask(request.target, request.cmd, request.arg) ELSE End(rs[1])

\* the requests a caller hands to _query_helper directly
Requests ==
    {[target |-> SYSTEM, cmd |-> "get_sysinfo", arg |-> EmptyDict],
     [target |-> SYSTEM, cmd |-> "set_relay_state", arg |-> [state |-> 1]],
     [target |-> TIME, cmd |-> "get_time", arg |-> EmptyDict],
     [target |-> EMETER, cmd |-> "get_realtime", arg |-> EmptyDict],
     [target |-> LIGHTING, cmd |-> "get_light_state", arg |-> EmptyDict]}

\* values the caller passes to the setters
HsvInputs == {<<120, 50, 102>>, <<0, 0, 255>>}
ColorTempInputs == {0, 2700}
BrightnessInputs == {40, 100, 150}
PlugStateInputs ==
    {[pytype |-> "str", value |-> <<"O", "N">>],
     [pytype |-> "str", value |-> <<"o", "f", "f">>],
     [pytype |-> "str", value |-> <<"u", "p">>],
     [pytype |-> "int", value |-> <<>>]}
BulbStateInputs == {"ON", "OFF", "on"}

\* the operation name, with the class it is looked up on, selects the code
Program(name, a, slf, rs) ==
    CASE name = "_query_helper" -> query_helper(a, rs)
      [] name = "get_sysinfo" -> sys_info(rs)
      [] name = "has_emeter" -> has_emeter(slf, rs)
      [] name = "alias_set" -> alias_set(a, rs)
      [] name = "time" -> time_get(rs)
      [] name = "timezone" -> timezone_get(rs)
      [] name = "get_emeter_realtime" -> get_emeter_realtime(slf, rs)
      [] name = "get_emeter_daily" -> get_emeter_daily(slf, a[1], a[2], rs)
      [] name = "get_emeter_monthly" -> get_emeter_monthly(slf, a, rs)
      [] name = "erase_emeter_stats" -> erase_emeter_stats(slf, rs)
      [] name = "current_consumption" -> current_consumption(slf, rs)
      [] name = "toggle" -> toggle(slf, rs)
      [] name = "state" -> (IF slf.cls = "SmartBulb" THEN bulb_state(rs) ELSE plug_state(rs))
      [] name = "is_on" -> (IF slf.cls = "SmartBulb" THEN bulb_is_on(rs) ELSE plug_is_on(rs))
      [] name = "turn_on" ->
            (IF slf.cls = "SmartBulb" THEN bulb_turn_on(rs) ELSE plug_turn_on(rs))
      [] name = "turn_off" ->
            (IF slf.cls = "SmartBulb" THEN bulb_turn_off(rs) ELSE plug_turn_off(rs))
      [] name = "led" -> led_get(rs)
      [] name = "led_set" -> led_set(a, rs)
      [] name = "state_set" ->
            (IF slf.cls = "SmartBulb" THEN bulb_state_set(a, rs) ELSE plug_state_set(a, rs))
      [] name = "hsv" -> hsv_get(rs)
      [] name = "hsv_set" -> hsv_set(a, rs)
      [] name = "color_temp" -> color_temp_get(rs)
      [] name = "color_temp_set" -> color_temp_set(a, rs)
      [] name = "brightness" -> brightness_get(rs)
      [] name = "brightness_set" -> brightness_set(a, rs)

\* the results of the _query_helper calls of the running operation
Results(log) == [i \in 1..Len(log) |-> log[i].res]

Idle == op = ""
Running == op # "" /\ outcome = Pending

\* the caller invokes an operation; one that needs no exchange ends at once
Start(name, a) ==
    /\ op' = name
    /\ args' = a
    /\ sent' = <<>>
    /\ outcome' = Program(name, a, self, <<>>).out
    /\ UNCHANGED <<self, device, raised, discVars, codecVars, convVars>>

\* one exchange of the running operation, going as b says
NextSent(b) ==
    LET p == Program(op, args, self, Results(sent))
        t == TransportResult(device, p.target, p.cmd, b)
    IN  Append(sent, [target |-> p.target, cmd |-> p.cmd, arg |-> p.arg,
                      shape |-> b.shape, t |-> t,
                      res |-> QueryHelperResult(p.target, p.cmd, t)])

\* the device after that exchange
NextDevice(b) ==
    LET p == Program(op, args, self, Results(sent)) IN
    IF b.shape = "ok" THEN Apply(device, p.target, p.cmd, p.arg) ELSE device

\* the operation sends its next request and takes the result; it goes on to
\* its end unless it needs another exchange
Exchange ==
    /\ Running
    /\ \E b \in Behaviours :
        /\ sent' = NextSent(b)
        /\ device' = NextDevice(b)
        /\ outcome' = Program(op, args, self, Results(NextSent(b))).out
    /\ UNCHANGED <<self, op, args, raised, discVars, codecVars, convVars>>

\* the same exchange, with what _query_helper raised kept by the caller for
\* telling the kinds of failure apart
ExchangeRecorded ==
    /\ Running
    /\ \E b \in Behaviours :
        /\ sent' = NextSent(b)
        /\ device' = NextDevice(b)
        /\ outcome' = Program(op, args, self, Results(NextSent(b))).out
        /\ raised' = IF Raised(NextSent(b)[Len(sent) + 1].res)
                     THEN raised \cup {<<Cause(b.shape), NextSent(b)[Len(sent) + 1].res.exc>>}
                     ELSE raised
    /\ UNCHANGED <<self, op, args, discVars, codecVars, convVars>>

\* the caller has taken the result
Returned ==
    /\ op # "" /\ outcome # Pending
    /\ op' = ""
    /\ args' = <<>>
    /\ outcome' = ReturnNone
    /\ sent' = <<>>
    /\ UNCHANGED <<self, device, raised, discVars, codecVars, convVars>>

\* another client of the same bulb switches it on or off
OtherClientSwitch ==
    /\ device.family = "bulb"
    /\ device' = Switched(device)
    /\ UNCHANGED <<self, op, args, outcome, sent, raised, discVars, codecVars, convVars>>

IsPlug == self.cls = "SmartPlug"
IsBulb == self.cls = "SmartBulb"

CallQueryHelper == Idle /\ \E r \in Requests : Start("_query_helper", r)
GetSysinfo == Idle /\ Start("get_sysinfo", <<>>)
HasEmeter == Idle /\ Start("has_emeter", <<>>)
SetAlias == Idle /\ Start("alias_set", "lamp")
GetTime == Idle /\ Start("time", <<>>)
GetTimezone == Idle /\ Start("timezone", <<>>)
GetEmeterRealtime == Idle /\ Start("get_emeter_realtime", <<>>)
GetEmeterDaily == Idle /\ Start("get_emeter_daily", <<2018, 1>>)
GetEmeterMonthly == Idle /\ Start("get_emeter_monthly", 2018)
EraseEmeterStats == Idle /\ Start("erase_emeter_stats", <<>>)
CurrentConsumption == Idle /\ Start("current_consumption", <<>>)
Toggle == Idle /\ Start("toggle", <<>>)
GetState == Idle /\ Start("state", <<>>)
GetIsOn == Idle /\ Start("is_on", <<>>)
TurnOn == Idle /\ Start("turn_on", <<>>)
TurnOff == Idle /\ Start("turn_off", <<>>)
GetLed == Idle /\ IsPlug /\ Start("led", <<>>)
SetLed == Idle /\ IsPlug /\ \E v \in BOOLEAN : Start("led_set", v)
SetBulbState == Idle /\ IsBulb /\ \E v \in BulbStateInputs : Start("state_set", v)
SetPlugState == Idle /\ IsPlug /\ \E v \in PlugStateInputs : Start("state_set", v)
GetHsv == Idle /\ IsBulb /\ Start("hsv", <<>>)
SetHsv == Idle /\ IsBulb /\ \E v \in HsvInputs : Start("hsv_set", v)
GetColorTemp == Idle /\ IsBulb /\ Start("color_temp", <<>>)
SetColorTemp == Idle /\ IsBulb /\ \E v \in ColorTempInputs : Start("color_temp_set", v)
GetBrightness == Idle /\ IsBulb /\ Start("brightness", <<>>)
SetBrightness == Idle /\ IsBulb /\ \E v \in BrightnessInputs : Start("brightness_set", v)

\* no discovery under way
InitDiscover ==
    /\ sock = "none"
    /\ dpc = "idle"
    /\ type = Unbound
    /\ devices = EmptyDict
    /\ received = <<>>
    /\ inbox = <<>>
    /\ wire = <<>>

\* nothing handed to the codec
InitCodec ==
    /\ plain = <<>>
    /\ frame = <<>>
    /\ decoded = NotDecoded

\* nothing converted
InitConv ==
    /\ ext = 0
    /\ nat = 0
    /\ conv = NotConverted

\* a device object as its constructor leaves it, and the device it names
InitObject ==
    /\ \/ self = SmartPlug /\ device \in Plugs
       \/ self = SmartBulb /\ device \in Bulbs
    /\ op = ""
    /\ args = <<>>
    /\ outcome = ReturnNone
    /\ sent = <<>>
    /\ raised = {}

Init == InitObject /\ InitDiscover /\ InitCodec /\ InitConv

Next ==
    \/ CallQueryHelper \/ GetSysinfo \/ HasEmeter \/ SetAlias \/ GetTime \/ GetTimezone
    \/ GetEmeterRealtime \/ GetEmeterDaily \/ GetEmeterMonthly
    \/ EraseEmeterStats \/ CurrentConsumption \/ Toggle
    \/ GetState \/ GetIsOn \/ TurnOn \/ TurnOff \/ GetLed \/ SetLed
    \/ SetBulbState \/ SetPlugState \/ GetHsv \/ SetHsv \/ GetColorTemp \/ SetColorTemp
    \/ GetBrightness \/ SetBrightness
    \/ Exchange \/ Returned \/ OtherClientSwitch

Spec == Init /\ [][Next]_vars

\* direct calls of _query_helper, the caller keeping what was raised
NextQuery == CallQueryHelper \/ ExchangeRecorded \/ Returned

SpecQuery == Init /\ [][NextQuery]_vars

\* one discovery call
NextDiscover ==
    DiscoverSend \/ DiscoverSendFails \/ Arrive \/ Recv \/ RecvTimeout \/ RecvError

\* one device object at rest, for the specifications that are not about it
OneObject ==
    /\ self = SmartPlug
    /\ device = [family |-> "plug", relay_state |-> 0, led_off |-> 0, feature |-> FeatureTim,
                 on_off |-> 0, light |-> AttrWarm, dft |-> AttrWarm, is_color |-> 0,
                 is_dimmable |-> 0, is_variable_color_temp |-> 0, erased |-> FALSE]
    /\ op = ""
    /\ args = <<>>
    /\ outcome = ReturnNone
    /\ sent = <<>>
    /\ raised = {}

InitDiscovery == OneObject /\ InitDiscover /\ InitCodec /\ InitConv

SpecDiscover == InitDiscovery /\ [][NextDiscover]_vars

\* the codec applied to every bounded plaintext
InitPlaintext ==
    /\ OneObject /\ InitDiscover /\ InitConv
    /\ plain \in Plaintexts
    /\ frame = <<>>
    /\ decoded = NotDecoded

NextCodec == EncryptCall \/ DecryptCall

SpecCodec == InitPlaintext /\ [][NextCodec]_vars

\* the conversions applied to every value of the two scales
InitScales ==
    /\ OneObject /\ InitDiscover /\ InitCodec
    /\ ext \in 0..ExternalMax
    /\ nat \in 0..NativeMax
    /\ conv = NotConverted

NextConv == Convert

SpecConv == InitScales /\ [][NextConv]_vars

-----------------------------------------------------------------------------
(* Properties of _query_helper *)

\* the response of exchange e has the namespace and the command, and the
\* command's object carries a nonzero err_code
InnerErrCode(e) ==
    /\ e.t.ok
    /\ Has(e.t.response, e.target)
    /\ Has(e.t.response[e.target], e.cmd)
    /\ Has(e.t.response[e.target][e.cmd], "err_code")
    /\ e.t.response[e.target][e.cmd]["err_code"] # 0

\* C1: a response whose innermost object (the one under the requested
\* command) carries a nonzero err_code makes _query_helper raise; it is never
\* returned as a result.
C1_InnerErrCodeRaises ==
    \A i \in 1..Len(sent) : InnerErrCode(sent[i]) => Raised(sent[i].res)

\* the response of exchange e lacks the requested namespace
NamespaceMissing(e) == e.t.ok /\ ~Has(e.t.response, e.target)

\* C2: a response that does not contain the requested namespace at top level
\* makes _query_helper raise SmartDeviceException: no other exception, no
\* returned value; a direct caller of _query_helper gets that exception.
C2_MissingNamespaceRaises ==
    \A i \in 1..Len(sent) :
        NamespaceMissing(sent[i]) =>
            /\ sent[i].res.kind = "raise"
            /\ sent[i].res.exc = SmartDeviceException
            /\ op = "_query_helper" => outcome = sent[i].res

\* C2 happens: a direct call got a response about another namespace only and
\* ended in SmartDeviceException
C2_Witness ==
    /\ op = "_query_helper"
    /\ Len(sent) = 1
    /\ NamespaceMissing(sent[1])
    /\ Has(sent[1].t.response, "context")
    /\ outcome.kind = "raise"
    /\ outcome.exc = SmartDeviceException

\* C3: a transport failure and a nonzero err_code are reported to the caller
\* as different kinds of error (different exception classes).
C3_TransportErrorKindDistinct ==
    \A x \in raised, y \in raised :
        (x[1] = "transport" /\ y[1] = "device") => x[2] # y[2]

\* C4: when an exchange of an operation fails in the transport, the operation
\* sends nothing after it and ends by raising; it never returns normally.
C4_TransportFailureSurfaces ==
    (op # "" /\ outcome # Pending) =>
        \A i \in 1..Len(sent) :
            sent[i].shape = "fail" => (i = Len(sent) /\ Raised(outcome))

-----------------------------------------------------------------------------
(* Properties of the bulb getters *)

\* a getter of the bulb has returned a value
GetterReturned ==
    /\ op \in {"hsv", "color_temp", "brightness"}
    /\ outcome.kind = "return"
    /\ outcome.pytype # "NoneType"

\* the light state the getter holds and what is_on answered
GetterLightState == sent[2].res.value
GetterIsOn == sent[3].res.value["on_off"] # 0

\* the place the claim names holds attribute k
PlaceHas(k) ==
    IF GetterIsOn THEN Has(GetterLightState, k)
    ELSE Has(GetterLightState, "dft_on_state") /\ Has(GetterLightState["dft_on_state"], k)

\* attribute k at the place the claim names
PlaceValue(k) ==
    IF GetterIsOn THEN GetterLightState[k] ELSE GetterLightState["dft_on_state"][k]

\* C8: the brightness, hsv and color_temp getters return the values found
\* under dft_on_state of the light state when the bulb is off and the
\* top-level values of the light state when it is on (hsv with the brightness
\* scaled to 0..255).
C8_GetterReadsPlace ==
    GetterReturned =>
        /\ Len(sent) = 3
        /\ op = "brightness" =>
            PlaceHas("brightness") /\ outcome.value = PlaceValue("brightness")
        /\ op = "color_temp" =>
            PlaceHas("color_temp") /\ outcome.value = PlaceValue("color_temp")
        /\ op = "hsv" =>
            /\ PlaceHas("hue") /\ PlaceHas("saturation") /\ PlaceHas("brightness")
            /\ outcome.value = <<PlaceValue("hue"), PlaceValue("saturation"),
                                 (PlaceValue("brightness") * 255) \div 100>>

\* C8 happens: the bulb was off, the light state carried both places with
\* different brightness, and the getter returned
C8_Witness ==
    /\ op = "brightness"
    /\ outcome.kind = "return"
    /\ outcome.pytype = "int"
    /\ Len(sent) = 3
    /\ ~GetterIsOn
    /\ Has(GetterLightState, "brightness")
    /\ GetterLightState["brightness"] # GetterLightState["dft_on_state"]["brightness"]

-----------------------------------------------------------------------------
(* Properties of the metering operations *)

MeteringOps ==
    {"get_emeter_realtime", "get_emeter_daily", "get_emeter_monthly",
     "erase_emeter_stats", "current_consumption"}

\* the device is a plug whose feature field does not name the energy meter
NoMeter == device.family = "plug" /\ device.feature # FeatureTimEne

\* C10 as stated: a metering operation on a device without an energy meter
\* returns None and performs no network call at all.
C10_NoMeterNoNetworkCall ==
    (op \in MeteringOps /\ outcome # Pending /\ NoMeter) =>
        /\ outcome = ReturnNone
        /\ Len(sent) = 0

\* C10 amended: a metering operation on a device without an energy meter
\* sends nothing but the one system/get_sysinfo request that reads the
\* feature flags, never a request to the emeter namespace; when that request
\* is answered the operation returns None (erase_emeter_stats: False).
C10_NoMeterNoEmeterQuery ==
    (op \in MeteringOps /\ NoMeter) =>
        /\ Len(sent) <= 1
        /\ \A i \in 1..Len(sent) :
            sent[i].target = SYSTEM /\ sent[i].cmd = "get_sysinfo"
        /\ (outcome # Pending /\ Len(sent) = 1 /\ sent[1].shape = "ok") =>
            outcome = IF op = "erase_emeter_stats" THEN Return("bool", FALSE)
                      ELSE ReturnNone

\* C10 happens: current_consumption on a plug whose feature field only looks
\* like it names the meter returned None after one request
C10_Witness ==
    /\ op = "current_consumption"
    /\ device.family = "plug"
    /\ device.feature = FeatureLookalike
    /\ outcome = ReturnNone
    /\ Len(sent) = 1

-----------------------------------------------------------------------------
(* Properties of Discover.discover *)

\* every reply that reached the socket during the call, in order of arrival
Arrived == received \o inbox

\* a reply that is malformed or declares neither family
Unrecognized(d) == d.payload.family = ""

\* discover has returned its mapping after the receive timed out or after an
\* exception in a pass of the loop
DiscoverReturned == dpc \in {"done_timeout", "done_exception"}

\* C5: a malformed or unrecognized reply does not end the receive loop: every
\* plug or bulb reply that arrived after it is in the returned mapping.
C5_BadReplySkipped ==
    DiscoverReturned =>
        \A i \in 1..Len(Arrived), j \in 1..Len(Arrived) :
            (i < j /\ Unrecognized(Arrived[i]) /\ ~Unrecognized(Arrived[j]))
                => Has(devices, Arrived[j].addr)

\* the replies received from address a that declare a family
Classified(a) ==
    {i \in 1..Len(received) : received[i].addr = a /\ ~Unrecognized(received[i])}

\* the last of them
LastClassified(a) == CHOOSE i \in Classified(a) : \A j \in Classified(a) : j <= i

\* C6: the returned mapping has exactly one entry per address that sent a
\* classifiable reply, a device of the family of the last such reply from
\* that address, constructed with that address.
C6_OneEntryPerClassifiedAddress ==
    dpc = "done_timeout" =>
        /\ DOMAIN devices = {a \in Addresses : Classified(a) # {}}
        /\ \A a \in DOMAIN devices :
            /\ devices[a].ip_address = a
            /\ Classified(a) # {} =>
                devices[a].cls = received[LastClassified(a)].payload.family

-----------------------------------------------------------------------------
(* Properties of the wire codec *)

\* C7: decrypting what encrypt made of a plaintext gives the plaintext back,
\* and the empty plaintext is encoded as the 4-byte prefix 0 alone.
C7_CodecRoundTrip ==
    /\ decoded.done => decoded.bytes = plain
    /\ (frame # <<>> /\ plain = <<>>) => frame = <<0, 0, 0, 0>>
    /\ frame # <<>> => (Len(frame) = 4 + Len(plain) /\ frame[4] = Len(plain))

\* C7 happens: a plaintext of three bytes, one of them the initial key, went
\* through both directions
C7_Witness ==
    /\ decoded.done
    /\ Len(plain) = 3
    /\ plain[2] = InitialKey
    /\ decoded.bytes = plain
    /\ SubSeq(frame, 5, 7) # plain

-----------------------------------------------------------------------------
(* Properties of the brightness conversion *)

-----------------------------------------------------------------------------
(* Validation of the caller's values *)

\* the running operation was handed a value its contract excludes: a
\* brightness outside 0..100, or a state that is neither ON nor OFF
InvalidInput ==
    \/ op = "brightness_set" /\ args \notin 0..100
    \/ op = "state_set" /\ IsBulb /\ args \notin {BULB_STATE_ON, BULB_STATE_OFF}
    \/ /\ op = "state_set" /\ IsPlug
       /\ \/ args.pytype # "str"
          \/ Upper(args.value) \notin {<<"O", "N">>, <<"O", "F", "F">>}

\* C11: an operation handed an invalid value raises and has sent no query
\* to the device: validation comes before any network activity
C11_InvalidRejectedBeforeNetwork ==
    InvalidInput => sent = <<>> /\ (outcome # Pending => Raised(outcome))

-----------------------------------------------------------------------------
(* Bulb setters and the capability flags *)

\* the capability flag each setter asks for
SetterFlag ==
    [hsv_set |-> "is_color", color_temp_set |-> "is_variable_color_temp",
     brightness_set |-> "is_dimmable"]

\* a setter is running and the sysinfo it got does not advertise its flag
NotAdvertised ==
    /\ op \in DOMAIN SetterFlag
    /\ Len(sent) >= 1
    /\ ~Raised(sent[1].res)
    /\ ~FlagOf(sent[1].res, SetterFlag[op]).value

\* C12: a bulb setter whose capability flag is not advertised returns None
\* without error, sends nothing but the sysinfo query (no
\* transition_light_state), and the step that answers it leaves the
\* device's light attributes as they were
C12_SetterNoOpWithoutCapability ==
    /\ [](NotAdvertised =>
            /\ outcome = ReturnNone
            /\ Len(sent) = 1
            /\ \A i \in 1..Len(sent) : sent[i].cmd # "transition_light_state")
    /\ [][NotAdvertised' =>
            device'.light = device.light /\ device'.dft = device.dft]_vars

C12_Witness ==
    /\ NotAdvertised
    /\ op = "hsv_set"
    /\ sent[1].shape = "ok"
    /\ device.is_color = 0
    /\ outcome = ReturnNone

-----------------------------------------------------------------------------
(* Daily and monthly statistics *)

\* the statistics operation that is running got the list of entries in its
\* i-th exchange
StatAnswered(i) ==
    /\ op \in {"get_emeter_daily", "get_emeter_monthly"}
    /\ i \in 1..Len(sent)
    /\ sent[i].cmd \in {"get_daystat", "get_monthstat"}
    /\ sent[i].shape = "ok"

\* the entries that exchange carried
StatEntries(i) ==
    sent[i].t.response[sent[i].target][sent[i].cmd]
        [IF sent[i].cmd = "get_daystat" THEN "day_list" ELSE "month_list"]

\* the field that numbers the period, and the field the family's unit flag
\* selects: scaled units for the bulb, raw units for the plug
StatPeriod(i) == IF sent[i].cmd = "get_daystat" THEN "day" ELSE "month"
FamilyKey == IF IsBulb THEN "energy_wh" ELSE "energy"

\* C13: get_emeter_daily and get_emeter_monthly return the mapping from
\* each entry's period number to its energy value, read from energy_wh on a
\* bulb and from energy on a plug whatever other fields the entries carry;
\* entries {day:1, energy_wh:120}, {day:2, energy_wh:80} give {1:120, 2:80}
C13_PeriodMapping ==
    \A i \in 1..Len(sent) : StatAnswered(i) =>
        LET list == StatEntries(i) IN
        /\ ~Raised(outcome) /\ outcome.pytype = "dict"
        /\ DOMAIN outcome.value = {list[j][StatPeriod(i)] : j \in 1..Len(list)}
        /\ \A j \in 1..Len(list) : outcome.value[list[j][StatPeriod(i)]] = list[j][FamilyKey]
        /\ (list = <<[day |-> 1, energy_wh |-> 120], [day |-> 2, energy_wh |-> 80]>>
                => outcome.value = (1 :> 120 @@ 2 :> 80))

C13_Witness ==
    /\ \E i \in 1..Len(sent) : StatAnswered(i) /\ Len(StatEntries(i)) = 2
    /\ op = "get_emeter_daily"
    /\ IsBulb
    /\ outcome = Return("dict", (1 :> 120 @@ 2 :> 80))

-----------------------------------------------------------------------------
(* Relay state of a plug *)

\* the state or is_on getter of a plug has been answered with a sysinfo
\* that carries a raw relay_state
RelayReported ==
    /\ IsPlug
    /\ op \in {"state", "is_on"}
    /\ Len(sent) = 1
    /\ ~Raised(sent[1].res)
    /\ Has(sent[1].res.value, "relay_state")

RawRelayState == sent[1].res.value["relay_state"]

\* C14: for a raw relay_state the state is OFF for 0, ON for 1 and UNKNOWN
\* for anything else, and is_on is true exactly for the raw value whose
\* state is ON
C14_IsOnAgreesWithState ==
    RelayReported =>
        /\ op = "state" =>
                outcome = Return("str", IF RawRelayState = 0 THEN SWITCH_STATE_OFF
                                        ELSE IF RawRelayState = 1 THEN SWITCH_STATE_ON
                                        ELSE SWITCH_STATE_UNKNOWN)
        /\ op = "is_on" => outcome = Return("bool", RawRelayState = 1)

-----------------------------------------------------------------------------
(* The socket of a discovery call *)

\* control has left discover: by return or by the exception of sendto
DiscoverLeft == dpc \in {"done_timeout", "done_exception", "done_error", "raised"}

\* C15: on every exit of discover the socket it opened has been closed
C15_SocketReleasedOnExit == DiscoverLeft => sock = "closed"

-----------------------------------------------------------------------------
(* The discovery request on the wire *)

\* the request has been broadcast
Broadcast == dpc \notin {"idle", "raised"}

\* the obfuscated request, as the codec's encode makes it
ObfuscatedRequest == XorEncode(DiscoveryRequest, InitialKey)

-----------------------------------------------------------------------------
(* The ways _query_helper ends *)

\* C17: every call of _query_helper either returns a dict without err_code
\* or raises SmartDeviceException; no other exception escapes
C17_ReturnsOrRaisesSmartDeviceException ==
    \A i \in 1..Len(sent) :
        IF Raised(sent[i].res)
        THEN sent[i].res.exc = SmartDeviceException
        ELSE sent[i].res.pytype = "dict" /\ ~Has(sent[i].res.value, "err_code")

-----------------------------------------------------------------------------
(* Classification of each reply on its own *)

\* a reply that carries a system/get_sysinfo object
CarriesSysinfo(d) ==
    /\ d.payload.parsed
    /\ Has(d.payload.info, "system")
    /\ Has(d.payload.info["system"], "get_sysinfo")

\* C18: a pass of the receive loop over a reply without a system/get_sysinfo
\* object leaves the result mapping as it was, whatever was received before
C18_ReplyClassifiedAlone ==
    [][(/\ Len(received') = Len(received) + 1
        /\ ~CarriesSysinfo(received'[Len(received')]))
       => devices' = devices]_vars

-----------------------------------------------------------------------------
(* Bulb getters while another client switches the bulb *)

\* a getter has made its three queries and the device answered each one
GetterAnswered ==
    /\ op \in {"hsv", "color_temp", "brightness"}
    /\ Len(sent) = 3
    /\ \A i \in 1..3 : sent[i].shape = "ok"

\* C19: a getter decides between dft_on_state and the top-level fields by
\* the on/off state of the very light state it reads the values from, and
\* ends without looking up a field that light state does not carry
C19_GetterUsesOneSnapshot ==
    GetterAnswered =>
        /\ GetterIsOn = (GetterLightState["on_off"] # 0)
        /\ ~Raised(outcome)

=============================================================================
